---- MODULE Spec2Model ----
(***************************************************************************)
(* WireViz harness assembly: the body of parse() in src/wireviz/wireviz.py *)
(* as a state machine.  One build walks the list of connection sets; for   *)
(* each set it counts the parallel connections, expands string entries,    *)
(* resolves every token to a designator, expands the pin lists, generates  *)
(* the components (checking that rows alternate connector/cable) and       *)
(* connects them; then it adds the manual BOM lines, populates the BOM,    *)
(* writes the output and returns.  Every raise ends the build.             *)
(*                                                                         *)
(* A raw token is a sequence of pieces of text, the separator being a      *)
(* piece of its own; templates and designators are strings.                *)
(***************************************************************************)
EXTENDS Integers, Sequences, FiniteSets, TLC

VARIABLES
    pc,                         \* position in parse()
    output_formats,             \* parse() argument: is any output format asked for
    return_types,               \* parse() argument: is any return type asked for
    designators_and_templates,  \* designator -> template
    autogenerated_designators,  \* template -> number of designators generated
    expected_type,              \* "None", "connector" or "cable"
    connection_set,             \* the connection set being processed, as rewritten so far
    connectioncount,            \* number of parallel connections of that set
    index,                      \* loop cursor: entry of connection_set
    subindex,                   \* loop cursor: item of that entry
    connectors,                 \* harness.connectors: designator -> template
    cables,                     \* harness.cables: designator -> template
    connections,                \* calls of harness.connect, in order
    bom_items,                  \* additional BOM lines added so far
    bom,                        \* number of calls of harness.populate_bom
    written,                    \* harness.output was called
    returns,                    \* what parse() returned
    error,                      \* the exception that ended the build, or "none"
    error_names,                \* the designator and template its message names
    nsets,                      \* connection sets taken from the list so far
    input_set,                  \* history: the current connection set as given
    calls,                      \* history: calls of resolve_designator past the split
    added                       \* history: calls of add_connector / add_cable

vars == <<pc, output_formats, return_types, designators_and_templates,
          autogenerated_designators, expected_type, connection_set,
          connectioncount, index, subindex, connectors, cables, connections,
          bom_items, bom, written, returns, error, error_names, nsets,
          input_set, calls, added>>

\* Bounds of the model.
MaxSets == 3
MaxBomLines == 2

-----------------------------------------------------------------------------
\* Text

template_separator_char == ":"
AUTOGENERATED_PREFIX == "__"

RECURSIVE Join(_)
Join(pieces) == IF pieces = <<>> THEN "" ELSE Head(pieces) \o Join(Tail(pieces))

\* str.count(separator)
count(inp, separator) == Cardinality({i \in 1..Len(inp) : inp[i] = separator})

\* str.split(separator) of a text holding the separator once
split(inp, separator) ==
    LET i == CHOOSE k \in 1..Len(inp) : inp[k] = separator
    IN  <<Join(SubSeq(inp, 1, i - 1)), Join(SubSeq(inp, i + 1, Len(inp)))>>

\* dict.get(key, 0)
get(dict, key) == IF key \in DOMAIN dict THEN dict[key] ELSE 0

\* dict[key] = value
put(dict, key, value) ==
    [k \in DOMAIN dict \cup {key} |-> IF k = key THEN value ELSE dict[k]]

EmptyDict == [k \in {} |-> 0]

-----------------------------------------------------------------------------
\* The templates of the input file: names of the connectors and cables sections.

template_connectors == {"DB9", "T"}
template_cables == {"CAB1", "CAB2", "CAB1_1", "T"}

-----------------------------------------------------------------------------
\* resolve_designator

\* the counter of a template after one more auto-generation
NeverIncrement(auto, template) == get(auto, template)

next_autogenerated(auto, template) == get(auto, template) + 1

autogenerated_name(template, n) ==
    AUTOGENERATED_PREFIX \o template \o "_" \o ToString(n)

\* is the designator being redefined to a different template
NeverRedefining(dt, designator, template) == FALSE

redefining(dt, designator, template) ==
    designator \in DOMAIN dt /\ dt[designator] # template

\* the bindings after a token with a separator
bind(dt, designator, template) ==
    IF designator \in DOMAIN dt THEN dt ELSE put(dt, designator, template)

\* the bindings after a token without separator
bind_bare(dt, designator, template) ==
    IF designator \in DOMAIN dt THEN dt ELSE put(dt, designator, template)

\* the counters after a token with a separator and suffix `designator`
CountEveryToken(auto, template, designator) ==
    put(auto, template, next_autogenerated(auto, template))

count_autogenerated(auto, template, designator) ==
    IF designator = ""
    THEN put(auto, template, next_autogenerated(auto, template))
    ELSE auto

\* The result of resolve_designator(inp, separator) with bindings dt and
\* counters auto: the error raised or "none", the pair returned, and the
\* bindings and counters it leaves.
resolve_designator(inp, separator, dt, auto) ==
    IF count(inp, separator) > 0
    THEN IF count(inp, separator) > 1
         THEN [error |-> "AmbiguousSeparator", template |-> "", designator |-> "",
               dt |-> dt, auto |-> auto, autogenerated |-> FALSE]
         ELSE LET template == split(inp, separator)[1]
                  suffix == split(inp, separator)[2]
                  auto2 == count_autogenerated(auto, template, suffix)
                  designator == IF suffix = ""
                                THEN autogenerated_name(template, auto2[template])
                                ELSE suffix
              IN  IF redefining(dt, designator, template)
                  THEN [error |-> "DesignatorConflict", template |-> template,
                        designator |-> designator, dt |-> dt, auto |-> auto2,
                        autogenerated |-> suffix = ""]
                  ELSE [error |-> "none", template |-> template,
                        designator |-> designator,
                        dt |-> bind(dt, designator, template), auto |-> auto2,
                        autogenerated |-> suffix = ""]
    ELSE LET name == Join(inp)
         IN  [error |-> "none", template |-> name, designator |-> name,
              dt |-> bind_bare(dt, name, name), auto |-> auto,
              autogenerated |-> FALSE]

-----------------------------------------------------------------------------
\* Connection sets of the input file.  An entry is a string (one token), a
\* list of tokens, or a mapping of one token to a pin list; a pin list is
\* written as a sequence of ranges <<first, last>>.

Str(token) == [kind |-> "str", items |-> <<token>>, value |-> <<>>]
List(tokens) == [kind |-> "list", items |-> tokens, value |-> <<>>]
Dict(token, pins) == [kind |-> "dict", items |-> <<token>>, value |-> pins]

\* wv_utils.expand: "1-3,6" becomes 1, 2, 3, 6
RECURSIVE expand(_)
expand(value) ==
    IF value = <<>> THEN <<>>
    ELSE LET first == Head(value)[1]
             last == Head(value)[2]
         IN  [i \in 1..(last - first + 1) |-> first + i - 1] \o expand(Tail(value))

DB9_P1 == <<"DB9", ":", "P1">>
DB9_P2 == <<"DB9", ":", "P2">>
CAB1_ == <<"CAB1", ":">>
CAB2_ == <<"CAB2", ":">>
CAB1_1_ == <<"CAB1", "_", "1", ":">>
CAB1_W1 == <<"CAB1", ":", "W1">>
CAB1_P1 == <<"CAB1", ":", "P1">>
T_U1 == <<"T", ":", "U1">>
CAB1_user == <<"CAB1", ":", "__", "CAB1", "_", "1">>
DB9_user == <<"DB9", ":", "__", "CAB1", "_", "1">>
A__B == <<"A", ":", ":", "B">>
P1 == <<"P1">>
DB9 == <<"DB9">>
X1 == <<"X1">>
X2 == <<"X2">>

ScenarioA == <<Str(DB9_P1), Dict(CAB1_, <<<<1, 3>>>>), Str(DB9_P2)>>
ScenarioB == <<Str(CAB1_), Str(CAB2_)>>
ScenarioC == <<List(<<A__B>>)>>
ScenarioD == <<Dict(X1, <<<<1, 4>>>>), Dict(X2, <<<<1, 3>>>>)>>

ConnectionSets ==
    { ScenarioA, ScenarioB, ScenarioC, ScenarioD,
      <<>>,
      <<List(<<>>)>>,
      <<Dict(P1, <<>>), Str(CAB1_)>>,
      <<List(<<>>), List(<<DB9_P1>>)>>,
      <<List(<<CAB1_>>), Str(CAB2_)>>,
      <<Str(CAB1_), List(<<DB9_P1, DB9_P2, DB9_P1>>)>>,
      <<Str(P1), Dict(CAB1_W1, <<<<1, 2>>>>), Str(DB9_P2), Str(CAB2_)>>,
      <<List(<<CAB1_P1>>)>>,
      <<List(<<CAB1_user>>), Str(DB9_P1)>>,
      <<List(<<DB9_user>>)>>,
      <<List(<<T_U1>>), Str(CAB2_)>>,
      <<List(<<DB9_P1, CAB1_>>)>>,
      <<Str(DB9_P1), List(<<DB9_P2>>)>>,
      <<Str(DB9), Dict(CAB1_W1, <<<<1, 2>>, <<6, 6>>>>), Str(DB9_P1),
        Str(CAB1_1_), List(<<DB9_P2, DB9_P2, T_U1>>)>> }

-----------------------------------------------------------------------------
\* Number of parallel connections of a set

\* the connectioncount list: one number per list or mapping entry
RECURSIVE StringsCountOne(_)
StringsCountOne(set) ==
    IF set = <<>> THEN <<>>
    ELSE LET entry == Head(set)
         IN  (CASE entry.kind = "list" -> <<Len(entry.items)>>
                [] entry.kind = "dict" -> <<Len(expand(entry.value))>>
                [] OTHER -> <<1>>)
             \o StringsCountOne(Tail(set))

RECURSIVE connectioncounts(_)
connectioncounts(set) ==
    IF set = <<>> THEN <<>>
    ELSE LET entry == Head(set)
         IN  (CASE entry.kind = "list" -> <<Len(entry.items)>>
                [] entry.kind = "dict" -> <<Len(expand(entry.value))>>
                [] OTHER -> <<>>)
             \o connectioncounts(Tail(set))

\* not any(connectioncount)
OnlyEmpty(counts) == counts = <<>>

no_connection_count(counts) == ~ \E i \in 1..Len(counts) : counts[i] # 0

\* len(set(connectioncount)) > 1
NeverMismatch(counts) == FALSE

count_mismatch(counts) == Cardinality({counts[i] : i \in 1..Len(counts)}) > 1

\* string entries expanded to list entries of the connection count
expand_strings(set, n) ==
    [i \in 1..Len(set) |->
        IF set[i].kind = "str"
        THEN List([k \in 1..n |-> set[i].items[1]])
        ELSE set[i]]

\* all pin lists expanded: every entry a list of {designator: pin}
expand_pins(set) ==
    [i \in 1..Len(set) |->
        IF set[i].kind = "list"
        THEN [k \in 1..Len(set[i].items) |->
                 [designator |-> set[i].items[k], pin |-> 1]]
        ELSE LET pinlist == expand(set[i].value)
             IN  [k \in 1..Len(pinlist) |->
                     [designator |-> set[i].items[1], pin |-> pinlist[k]]]]

\* the first entry from index i on that holds a token, or Len(set) + 1
RECURSIVE next_entry(_, _)
next_entry(set, i) ==
    IF i > Len(set) \/ set[i].items # <<>> THEN i ELSE next_entry(set, i + 1)

-----------------------------------------------------------------------------
\* Alternating connectors and cables

\* expected_type after check_type(designator, template, actual_type)
check_type(expected, actual_type) ==
    IF expected = "None" THEN actual_type ELSE expected

\* alternate_type()
alternate_type(expected) == IF expected = "connector" THEN "cable" ELSE "connector"

\* expected_type at the beginning of every connection set
KeepExpectedType(expected) == expected

reset_expected_type(expected) == "None"

-----------------------------------------------------------------------------
\* Connecting the components of a set

None == <<>>

\* list(map(list, zip(*connection_set)))
transpose(set) ==
    LET width == IF set = <<>> THEN 0
                 ELSE CHOOSE w \in {Len(set[k]) : k \in 1..Len(set)} :
                          \A k \in 1..Len(set) : w <= Len(set[k])
    IN  [p \in 1..width |-> [k \in 1..Len(set) |-> set[k][p]]]

\* get_single_key_and_value of the item on the left of item i
ItselfOnLeft(entry, i) ==
    IF i = 1 THEN None ELSE <<entry[i].designator, entry[i].pin>>

from_of(entry, i) ==
    IF i = 1 THEN None ELSE <<entry[i - 1].designator, entry[i - 1].pin>>

to_of(entry, i) ==
    IF i = Len(entry) THEN None ELSE <<entry[i + 1].designator, entry[i + 1].pin>>

\* the calls of harness.connect for items i.. of one transposed entry
RECURSIVE connect_items(_, _, _)
connect_items(entry, i, cabs) ==
    IF i > Len(entry) THEN <<>>
    ELSE (IF entry[i].designator \in cabs
          THEN <<[from |-> from_of(entry, i),
                  via |-> <<entry[i].designator, entry[i].pin>>,
                  to |-> to_of(entry, i)]>>
          ELSE <<>>)
         \o connect_items(entry, i + 1, cabs)

RECURSIVE connect_entries(_, _, _)
connect_entries(set, p, cabs) ==
    IF p > Len(set) THEN <<>>
    ELSE connect_items(set[p], 1, cabs) \o connect_entries(set, p + 1, cabs)

-----------------------------------------------------------------------------
\* The build

NoNames == [designator |-> "", template |-> ""]

Init ==
    /\ pc = "start"
    /\ output_formats = FALSE
    /\ return_types = FALSE
    /\ designators_and_templates = EmptyDict
    /\ autogenerated_designators = EmptyDict
    /\ expected_type = "None"
    /\ connection_set = <<>>
    /\ connectioncount = 0
    /\ index = 1
    /\ subindex = 1
    /\ connectors = EmptyDict
    /\ cables = EmptyDict
    /\ connections = <<>>
    /\ bom_items = 0
    /\ bom = 0
    /\ written = FALSE
    /\ returns = "nothing"
    /\ error = "none"
    /\ error_names = NoNames
    /\ nsets = 0
    /\ input_set = <<>>
    /\ calls = <<>>
    /\ added = <<>>

\* an exception leaves parse()
Continue(kind, names) ==
    /\ pc' = pc
    /\ error' = kind
    /\ error_names' = names

raise(kind, names) ==
    /\ pc' = "aborted"
    /\ error' = kind
    /\ error_names' = names

\* parse() up to the loop over the connection sets
Begin ==
    /\ pc = "start"
    /\ \E formats \in BOOLEAN, types \in BOOLEAN, metadata_ok \in BOOLEAN :
          /\ output_formats' = formats
          /\ return_types' = types
          /\ IF ~formats /\ ~types
             THEN raise("NoOutput", NoNames)
             ELSE IF ~metadata_ok
                  THEN raise("Metadata", NoNames)
                  ELSE pc' = "sets" /\ UNCHANGED <<error, error_names>>
    /\ UNCHANGED <<designators_and_templates, autogenerated_designators,
                   expected_type, connection_set, connectioncount, index,
                   subindex, connectors, cables, connections, bom_items, bom,
                   written, returns, nsets, input_set, calls, added>>

\* the next connection set: count its parallel connections and expand its
\* string entries
CountSet ==
    /\ pc = "sets"
    /\ nsets < MaxSets
    /\ \E set \in ConnectionSets :
          LET counts == connectioncounts(set)
          IN  /\ input_set' = set
              /\ nsets' = nsets + 1
              /\ IF no_connection_count(counts)
                 THEN /\ raise("MissingConnectionCount", NoNames)
                      /\ UNCHANGED <<connection_set, connectioncount, index>>
                 ELSE IF count_mismatch(counts)
                      THEN /\ raise("ConnectionCountMismatch", NoNames)
                           /\ UNCHANGED <<connection_set, connectioncount, index>>
                      ELSE LET expanded == expand_strings(set, counts[1])
                           IN  /\ connectioncount' = counts[1]
                               /\ connection_set' = expanded
                               /\ index' = next_entry(expanded, 1)
                               /\ pc' = IF next_entry(expanded, 1) > Len(expanded)
                                        THEN "expand" ELSE "resolve"
                               /\ UNCHANGED <<error, error_names>>
    /\ subindex' = 1
    /\ UNCHANGED <<output_formats, return_types, designators_and_templates,
                   autogenerated_designators, expected_type, connectors, cables,
                   connections, bom_items, bom, written, returns, calls, added>>

\* resolve the token at the cursor
Resolve ==
    /\ pc = "resolve"
    /\ LET entry == connection_set[index]
           inp == entry.items[subindex]
           r == resolve_designator(inp, template_separator_char,
                                   designators_and_templates,
                                   autogenerated_designators)
           last == subindex = Len(entry.items)
           following == IF last THEN next_entry(connection_set, index + 1)
                        ELSE index
       IN  /\ designators_and_templates' = r.dt
           /\ autogenerated_designators' = r.auto
           /\ calls' = IF r.error = "AmbiguousSeparator" THEN calls
                       ELSE Append(calls,
                                [inp |-> inp, template |-> r.template,
                                 designator |-> r.designator,
                                 autogenerated |-> r.autogenerated,
                                 ok |-> r.error = "none"])
           /\ IF r.error # "none"
              THEN /\ raise(r.error,
                            [designator |-> r.designator, template |-> r.template])
                   /\ UNCHANGED <<connection_set, index, subindex>>
              ELSE /\ connection_set' =
                          [connection_set EXCEPT ![index].items[subindex] = r.designator]
                   /\ index' = following
                   /\ subindex' = IF last THEN 1 ELSE subindex + 1
                   /\ pc' = IF following > Len(connection_set) THEN "expand" ELSE "resolve"
                   /\ UNCHANGED <<error, error_names>>
    /\ UNCHANGED <<output_formats, return_types, expected_type, connectioncount,
                   connectors, cables, connections, bom_items, bom, written,
                   returns, nsets, input_set, added>>

\* expand all pin lists; reset the check for alternating types
ExpandPins ==
    /\ pc = "expand"
    /\ connection_set' = expand_pins(connection_set)
    /\ expected_type' = reset_expected_type(expected_type)
    /\ index' = 1
    /\ subindex' = 1
    /\ pc' = "generate"
    /\ UNCHANGED <<output_formats, return_types, designators_and_templates,
                   autogenerated_designators, connectioncount, connectors, cables,
                   connections, bom_items, bom, written, returns, error,
                   error_names, nsets, input_set, calls, added>>

\* which branch of "generate components" an item takes: the type it is
\* checked as, and whether a new instance is generated
TemplateFirst(designator, template, conns, cabs) ==
    IF template \in template_connectors
    THEN [type |-> "connector", new |-> TRUE]
    ELSE IF template \in template_cables
    THEN [type |-> "cable", new |-> TRUE]
    ELSE IF designator \in DOMAIN conns
    THEN [type |-> "connector", new |-> FALSE]
    ELSE IF designator \in DOMAIN cabs
    THEN [type |-> "cable", new |-> FALSE]
    ELSE [type |-> "unknown", new |-> FALSE]

component_of(designator, template, conns, cabs) ==
    IF designator \in DOMAIN conns
    THEN [type |-> "connector", new |-> FALSE]
    ELSE IF template \in template_connectors
    THEN [type |-> "connector", new |-> TRUE]
    ELSE IF designator \in DOMAIN cabs
    THEN [type |-> "cable", new |-> FALSE]
    ELSE IF template \in template_cables
    THEN [type |-> "cable", new |-> TRUE]
    ELSE [type |-> "unknown", new |-> FALSE]

\* harness.add_connector / harness.add_cable
add_component(instances, designator, template) == put(instances, designator, template)

\* generate or check the component of the item at the cursor; after the last
\* item of an entry, alternate the expected type
Generate ==
    /\ pc = "generate"
    /\ index <= Len(connection_set)
    /\ subindex <= Len(connection_set[index])
    /\ LET designator == connection_set[index][subindex].designator
           template == designators_and_templates[designator]
           c == component_of(designator, template, connectors, cables)
           checked == check_type(expected_type, c.type)
           last == subindex = Len(connection_set[index])
       IN  IF c.type = "unknown"
           THEN /\ raise("UnknownTemplate",
                         [designator |-> designator, template |-> template])
                /\ UNCHANGED <<expected_type, connectors, cables, added, index,
                               subindex>>
           ELSE IF c.type # checked
           THEN /\ raise("TypeAlternation",
                         [designator |-> designator, template |-> template])
                /\ expected_type' = checked
                /\ UNCHANGED <<connectors, cables, added, index, subindex>>
           ELSE /\ connectors' = IF c.new /\ c.type = "connector"
                                 THEN add_component(connectors, designator, template)
                                 ELSE connectors
                /\ cables' = IF c.new /\ c.type = "cable"
                             THEN add_component(cables, designator, template)
                             ELSE cables
                /\ added' = IF c.new
                            THEN Append(added, [designator |-> designator,
                                                type |-> c.type])
                            ELSE added
                /\ expected_type' = IF last THEN alternate_type(checked) ELSE checked
                /\ index' = IF last THEN index + 1 ELSE index
                /\ subindex' = IF last THEN 1 ELSE subindex + 1
                /\ pc' = IF last /\ index = Len(connection_set)
                         THEN "connect" ELSE "generate"
                /\ UNCHANGED <<error, error_names>>
    /\ UNCHANGED <<output_formats, return_types, designators_and_templates,
                   autogenerated_designators, connection_set, connectioncount,
                   connections, bom_items, bom, written, returns, nsets,
                   input_set, calls>>

\* transpose the connection set and connect its components
Connect ==
    /\ pc = "connect"
    /\ connection_set' = transpose(connection_set)
    /\ connections' = connections
                      \o connect_entries(transpose(connection_set), 1, DOMAIN cables)
    /\ pc' = "sets"
    /\ UNCHANGED <<output_formats, return_types, designators_and_templates,
                   autogenerated_designators, expected_type, connectioncount,
                   index, subindex, connectors, cables, bom_items, bom, written,
                   returns, error, error_names, nsets, input_set, calls, added>>

\* the list of connection sets is exhausted
EndOfSets ==
    /\ pc = "sets"
    /\ pc' = "bom_items"
    /\ UNCHANGED <<output_formats, return_types, designators_and_templates,
                   autogenerated_designators, expected_type, connection_set,
                   connectioncount, index, subindex, connectors, cables,
                   connections, bom_items, bom, written, returns, error,
                   error_names, nsets, input_set, calls, added>>

\* harness.add_additional_bom_item(line); a malformed line is a TypeError
AddBomItem ==
    /\ pc = "bom_items"
    /\ bom_items < MaxBomLines
    /\ \E well_formed \in BOOLEAN :
          IF well_formed
          THEN bom_items' = bom_items + 1 /\ UNCHANGED <<pc, error, error_names>>
          ELSE raise("MalformedBomItem", NoNames) /\ UNCHANGED bom_items
    /\ UNCHANGED <<output_formats, return_types, designators_and_templates,
                   autogenerated_designators, expected_type, connection_set,
                   connectioncount, index, subindex, connectors, cables,
                   connections, bom, written, returns, nsets, input_set, calls,
                   added>>

\* harness.populate_bom(), the additional BOM lines being exhausted
PopulateBom ==
    /\ pc = "bom_items"
    /\ bom' = bom + 1
    /\ pc' = "output"
    /\ UNCHANGED <<output_formats, return_types, designators_and_templates,
                   autogenerated_designators, expected_type, connection_set,
                   connectioncount, index, subindex, connectors, cables,
                   connections, bom_items, written, returns, error, error_names,
                   nsets, input_set, calls, added>>

\* harness.output(...) if output formats are asked for
Output ==
    /\ pc = "output"
    /\ written' = output_formats
    /\ pc' = "return"
    /\ UNCHANGED <<output_formats, return_types, designators_and_templates,
                   autogenerated_designators, expected_type, connection_set,
                   connectioncount, index, subindex, connectors, cables,
                   connections, bom_items, bom, returns, error, error_names,
                   nsets, input_set, calls, added>>

\* the returns dict if return types are asked for, else None
Return ==
    /\ pc = "return"
    /\ returns' = IF return_types THEN "returns" ELSE "None"
    /\ pc' = "done"
    /\ UNCHANGED <<output_formats, return_types, designators_and_templates,
                   autogenerated_designators, expected_type, connection_set,
                   connectioncount, index, subindex, connectors, cables,
                   connections, bom_items, bom, written, error, error_names,
                   nsets, input_set, calls, added>>

Next ==
    \/ Begin
    \/ CountSet
    \/ Resolve
    \/ ExpandPins
    \/ Generate
    \/ Connect
    \/ EndOfSets
    \/ AddBomItem
    \/ PopulateBom
    \/ Output
    \/ Return

Spec == Init /\ [][Next]_vars

-----------------------------------------------------------------------------
\* Types of the components a connection set refers to

\* the type of the component a designator denotes: that of its instance, or
\* else that of the template it is bound to
TypeOf(designator) ==
    IF designator \in DOMAIN connectors THEN "connector"
    ELSE IF designator \in DOMAIN cables THEN "cable"
    ELSE IF designators_and_templates[designator] \in template_connectors
    THEN "connector"
    ELSE IF designators_and_templates[designator] \in template_cables
    THEN "cable"
    ELSE "unknown"

RowType(row) ==
    IF \A k \in 1..Len(row) : TypeOf(row[k].designator) = "connector"
    THEN "connector"
    ELSE IF \A k \in 1..Len(row) : TypeOf(row[k].designator) = "cable"
    THEN "cable"
    ELSE "mixed"

Alternates(rows) ==
    /\ \A i \in 1..Len(rows) : RowType(rows[i]) # "mixed"
    /\ \A i \in 1..(Len(rows) - 1) : RowType(rows[i]) # RowType(rows[i + 1])

HasCandidate(set) == \E i \in 1..Len(set) : set[i].kind # "str"

Candidates(set) ==
    {Len(set[i].items) : i \in {j \in 1..Len(set) : set[j].kind = "list"}}
    \cup {Len(expand(set[i].value)) : i \in {j \in 1..Len(set) : set[j].kind = "dict"}}

\* a token with exactly one separator, at its end
EmptySuffix(inp) ==
    /\ count(inp, template_separator_char) = 1
    /\ inp[Len(inp)] = template_separator_char

\* the designator a token of the input may resolve to
Denotes(inp, designator) ==
    IF count(inp, template_separator_char) = 0 THEN designator = Join(inp)
    ELSE IF ~EmptySuffix(inp)
    THEN designator = split(inp, template_separator_char)[2]
    ELSE \E c \in 1..Len(calls) :
            /\ calls[c].inp = inp
            /\ calls[c].autogenerated
            /\ calls[c].designator = designator

\* C2: once a connection set has passed normalization, its matrix has one
\* row per entry of the set as given, in order, and every row has exactly n
\* records of one designator and one pin, n >= 1 being the connection count
\* every list and mapping entry agrees on: a string entry gives n records of
\* its token with pin 1, a list entry one record per element with pin 1, a
\* mapping entry one record per expanded pin.
C2_Rectangular ==
    pc \in {"generate", "connect"} =>
        /\ connectioncount >= 1
        /\ Candidates(input_set) = {connectioncount}
        /\ Len(connection_set) = Len(input_set)
        /\ \A i \in 1..Len(input_set) :
              LET entry == input_set[i]
                  row == connection_set[i]
              IN  /\ Len(row) = connectioncount
                  /\ \A k \in 1..Len(row) :
                        CASE entry.kind = "str" ->
                                /\ row[k].pin = 1
                                /\ Denotes(entry.items[1], row[k].designator)
                          [] entry.kind = "list" ->
                                /\ row[k].pin = 1
                                /\ Denotes(entry.items[k], row[k].designator)
                          [] entry.kind = "dict" ->
                                /\ row[k].pin = expand(entry.value)[k]
                                /\ Denotes(entry.items[1], row[k].designator)
                                /\ row[k].designator = row[1].designator

\* C2 witness: a set of string, mapping and list entries normalized to five
\* rows of three records
C2_Witness ==
    /\ pc = "generate"
    /\ connectioncount = 3
    /\ Len(input_set) = 5
    /\ \E i \in 1..5 : input_set[i].kind = "list"
    /\ \E i \in 1..5 : input_set[i].kind = "dict"
    /\ \E i \in 1..5 : input_set[i].kind = "str"

\* C3 as stated: the missing-count error is raised exactly for the sets with
\* no candidate, the mismatch error exactly for the sets whose candidates
\* differ, and every other set adopts its single candidate, 0 included.
C3_AsStated ==
    nsets >= 1 =>
        /\ error = "MissingConnectionCount" <=> ~HasCandidate(input_set)
        /\ error = "ConnectionCountMismatch" <=> Cardinality(Candidates(input_set)) > 1

\* C3 amended: the missing-count error is raised exactly for the sets with no
\* candidate other than 0 (all entries strings or empty lists or empty pin
\* lists), the mismatch error exactly for the sets whose candidates differ,
\* and every other set adopts its single candidate, which is at least 1.
C3_CountErrors ==
    nsets >= 1 =>
        /\ error = "MissingConnectionCount" <=> Candidates(input_set) \subseteq {0}
        /\ error = "ConnectionCountMismatch" <=> Cardinality(Candidates(input_set)) > 1
        /\ error \notin {"MissingConnectionCount", "ConnectionCountMismatch"} =>
              /\ Candidates(input_set) = {connectioncount}
              /\ connectioncount >= 1

\* C3 witness: a set whose only candidate is 0 ended in the missing-count error
C3_Witness ==
    /\ error = "MissingConnectionCount"
    /\ Candidates(input_set) = {0}

\* C4 as stated: the set ["CAB1:", "CAB2:"] ends in the type error, which
\* names the auto-generated designator of the second entry.
C4_AsStated ==
    (input_set = ScenarioB /\ pc = "aborted") =>
        /\ error = "TypeAlternation"
        /\ error_names.template = "CAB2"

\* C4 amended: the set ["CAB1:", "CAB2:"], all of whose entries are strings,
\* ends in the missing-count error before any of its tokens is resolved, so
\* no designator is generated or named.
C4_ScenarioB ==
    input_set = ScenarioB =>
        /\ pc = "aborted"
        /\ error = "MissingConnectionCount"
        /\ error_names = NoNames
        /\ nsets = 1 => calls = <<>> /\ designators_and_templates = EmptyDict

\* C4 witness: the build was given ["CAB1:", "CAB2:"] and aborted
C4_Witness ==
    /\ input_set = ScenarioB
    /\ pc = "aborted"
    /\ nsets = 1

-----------------------------------------------------------------------------
\* Designator resolution

\* this step is a call of resolve_designator that got past the split
Resolved == Len(calls') = Len(calls) + 1

ThisCall == calls'[Len(calls')]

\* the earlier calls that resolved the token of this call
EarlierCalls == {c \in 1..Len(calls) : calls[c].inp = ThisCall.inp /\ calls[c].ok}

SameAsBefore ==
    /\ ThisCall.ok
    /\ \A c \in EarlierCalls :
          /\ ThisCall.template = calls[c].template
          /\ ThisCall.designator = calls[c].designator
    /\ designators_and_templates' = designators_and_templates
    /\ autogenerated_designators' = autogenerated_designators

\* C5 as stated: resolving again a token that was resolved before, an empty
\* suffix included, returns the pair it returned before and leaves the
\* bindings and the counters as they were.
C5_AsStated ==
    [][(Resolved /\ EarlierCalls # {}) => SameAsBefore]_vars

\* C5 amended: resolving again a bare token or a token with a non-empty
\* suffix that was resolved before returns the pair it returned before and
\* leaves the bindings and the counters as they were; resolving again a token
\* with an empty suffix returns the same template with a designator it never
\* returned before, and adds one to the counter of the template.
C5_Idempotent ==
    [][(Resolved /\ EarlierCalls # {}) =>
          IF EmptySuffix(ThisCall.inp)
          THEN /\ \A c \in EarlierCalls :
                     /\ ThisCall.template = calls[c].template
                     /\ ThisCall.designator # calls[c].designator
               /\ autogenerated_designators'[ThisCall.template]
                     = autogenerated_designators[ThisCall.template] + 1
          ELSE SameAsBefore]_vars

\* C5 witness: a bare token, a token with a suffix and a token with an empty
\* suffix have each been resolved twice
C5_Witness ==
    /\ \E c, d \in 1..Len(calls) : c < d /\ calls[c].inp = P1 /\ calls[d].inp = P1
    /\ \E c, d \in 1..Len(calls) : c < d /\ calls[c].inp = DB9_P1 /\ calls[d].inp = DB9_P1
    /\ \E c, d \in 1..Len(calls) :
          c < d /\ calls[c].inp = CAB1_ /\ calls[d].inp = CAB1_ /\ calls[d].ok

Autogenerated == {c \in 1..Len(calls) : calls[c].autogenerated}
UserChosen == {c \in 1..Len(calls) : ~calls[c].autogenerated}

\* C6: no designator returned for a token with an empty suffix equals a
\* designator the user supplied as a suffix or as a bare token, so that the
\* token never denotes a component the user named.
C6_NoCollision ==
    \A a \in Autogenerated : \A u \in UserChosen :
        calls[a].ok => calls[a].designator # calls[u].designator

\* the auto-generations of the template of call c up to and including c
Rank(c) ==
    Cardinality({a \in Autogenerated : a <= c /\ calls[a].template = calls[c].template})

\* C7: the counter of every template is the number of auto-generations of
\* that template so far (so it starts at 1, grows by exactly 1 per
\* auto-generation, and no other resolution changes it); the k-th
\* auto-generation of a template carries the number k; and any two
\* auto-generations, of one template or of two, give distinct designators.
C7_Sequence ==
    /\ \A a \in Autogenerated :
          /\ calls[a].template \in DOMAIN autogenerated_designators
          /\ calls[a].designator = autogenerated_name(calls[a].template, Rank(a))
    /\ \A t \in DOMAIN autogenerated_designators :
          autogenerated_designators[t]
              = Cardinality({a \in Autogenerated : calls[a].template = t})
    /\ \A a, b \in Autogenerated :
          a # b => calls[a].designator # calls[b].designator

\* C7 witness: two auto-generations of one template and one of another, with
\* resolutions of bare and suffixed tokens in between
C7_Witness ==
    /\ \E a, b \in Autogenerated :
          /\ a + 1 < b
          /\ calls[a].template = calls[b].template
          /\ \E u \in UserChosen : a < u /\ u < b
    /\ \E a, b \in Autogenerated : calls[a].template # calls[b].template

\* C8: no step changes or removes a binding of a designator; every token
\* with a separator that was resolved left its designator bound to its
\* template; and the designator-conflict error names a designator bound to
\* another template than the one of the token.
C8_BindingsGrow ==
    /\ [][\A d \in DOMAIN designators_and_templates :
             /\ d \in DOMAIN designators_and_templates'
             /\ designators_and_templates'[d] = designators_and_templates[d]]_vars
    /\ [](\A c \in 1..Len(calls) :
             (calls[c].ok /\ count(calls[c].inp, template_separator_char) = 1) =>
                 /\ calls[c].designator \in DOMAIN designators_and_templates
                 /\ designators_and_templates[calls[c].designator] = calls[c].template)
    /\ [](error = "DesignatorConflict" =>
             /\ error_names.designator \in DOMAIN designators_and_templates
             /\ designators_and_templates[error_names.designator] # error_names.template
             /\ ~calls[Len(calls)].ok
             /\ calls[Len(calls)].designator = error_names.designator
             /\ calls[Len(calls)].template = error_names.template)

\* C8 witness: an auto-generated designator was already bound to another
\* template, and the build ended in the designator-conflict error
C8_Witness ==
    /\ error = "DesignatorConflict"
    /\ calls[Len(calls)].autogenerated
    /\ nsets = 2
    /\ \E d \in DOMAIN designators_and_templates :
          designators_and_templates[d] # d /\ d \in DOMAIN connectors

-----------------------------------------------------------------------------
\* Connections

\* the positions <<path, chain position>> of a matrix that hold a cable
CablePositions(rows) ==
    {q \in (1..connectioncount) \X (1..Len(rows)) :
        rows[q[2]][q[1]].designator \in DOMAIN cables}

\* path-major, then chain order
Before(q, r) == q[1] < r[1] \/ (q[1] = r[1] /\ q[2] < r[2])

Endpoint(rows, p, k) == <<rows[k][p].designator, rows[k][p].pin>>

\* C9: connecting an accepted set of n parallel paths appends to the
\* connections exactly one connection per position <<path, chain position>>
\* that holds a cable, in path-major then chain order, with via the cable
\* and its pin, from the position before it in the chain and to the
\* position after it; from is null exactly for a cable in the first
\* position, to is null exactly for a cable in the last, and every other
\* endpoint is a connector instance.  The set ["DB9:P1", {"CAB1:": "1-3"},
\* "DB9:P2"] gives (P1,1)-(cable,1)-(P2,1), (P1,1)-(cable,2)-(P2,1),
\* (P1,1)-(cable,3)-(P2,1).
C9_Connections ==
    [][pc = "connect" =>
          LET rows == connection_set
              positions == CablePositions(rows)
              old == Len(connections)
              new == SubSeq(connections', old + 1, Len(connections'))
              at(q) == new[Cardinality({r \in positions : Before(r, q)}) + 1]
          IN  /\ SubSeq(connections', 1, old) = connections
              /\ Len(new) = Cardinality(positions)
              /\ \A q \in positions :
                    /\ at(q).via = Endpoint(rows, q[1], q[2])
                    /\ at(q).from = IF q[2] = 1 THEN None
                                    ELSE Endpoint(rows, q[1], q[2] - 1)
                    /\ at(q).to = IF q[2] = Len(rows) THEN None
                                  ELSE Endpoint(rows, q[1], q[2] + 1)
                    /\ at(q).from # None => at(q).from[1] \in DOMAIN connectors
                    /\ at(q).to # None => at(q).to[1] \in DOMAIN connectors
              /\ (input_set = ScenarioA /\ nsets = 1) =>
                    new = [p \in 1..3 |-> [from |-> <<"P1", 1>>,
                                           via |-> <<"__CAB1_1", p>>,
                                           to |-> <<"P2", 1>>]]]_vars

\* C9 witness: two sets have been connected, with a cable that starts its
\* chain, a cable that ends its chain, and a cable between two connectors
C9_Witness ==
    /\ pc = "sets"
    /\ nsets = 2
    /\ Len(connections) >= 7
    /\ \E c \in 1..Len(connections) :
          connections[c].from = None /\ connections[c].to # None
    /\ \E c \in 1..Len(connections) :
          connections[c].to = None /\ connections[c].from # None
    /\ \E c \in 1..Len(connections) :
          connections[c].from # None /\ connections[c].to # None

-----------------------------------------------------------------------------
\* The BOM and the end of the build

\* C10: the BOM is populated at most once, and once in a build that
\* completes; it is populated only when the loops over the connection sets
\* and the additional BOM lines are over, and no set or line is processed
\* after it; when an error was raised the build has stopped where it was:
\* no step follows, the BOM was never populated, no output was written and
\* nothing was returned.
C10_BomOnce ==
    /\ [](/\ bom <= 1
          /\ bom = 1 <=> pc \in {"output", "return", "done"}
          /\ error # "none" <=> pc = "aborted"
          /\ pc = "aborted" => bom = 0 /\ ~written /\ returns = "nothing"
          /\ written => bom = 1
          /\ returns # "nothing" => bom = 1 /\ pc = "done")
    /\ [][/\ error = "none"
          /\ bom' # bom => pc = "bom_items"
          /\ bom = 1 => nsets' = nsets /\ bom_items' = bom_items
                        /\ connections' = connections /\ calls' = calls]_vars

\* C10 witness: after a set was connected, an additional BOM line raised,
\* and the build stopped without a BOM
C10_Witness ==
    /\ pc = "aborted"
    /\ error = "MalformedBomItem"
    /\ connections # <<>>
    /\ bom = 0

-----------------------------------------------------------------------------
\* Component instances

Live == DOMAIN connectors \cup DOMAIN cables

\* the designator of the item at the cursor of "generate components"
AtCursor == connection_set[index][subindex].designator

\* C11: add_connector or add_cable is called at most once per designator,
\* the live instances being exactly the designators it was called for, each
\* in the registry of the type it was added as and bound to its template; no
\* designator is live both as a connector and as a cable, also when its
\* template is registered under both types; no step removes or replaces an
\* instance; and an occurrence of a designator that is already live adds
\* nothing.
C11_InstantiatedOnce ==
    /\ [](/\ \A a, b \in 1..Len(added) :
                a # b => added[a].designator # added[b].designator
          /\ Live = {added[a].designator : a \in 1..Len(added)}
          /\ \A a \in 1..Len(added) :
                /\ added[a].type = "connector" =>
                      added[a].designator \in DOMAIN connectors
                /\ added[a].type = "cable" =>
                      added[a].designator \in DOMAIN cables
          /\ DOMAIN connectors \cap DOMAIN cables = {}
          /\ \A d \in DOMAIN connectors :
                connectors[d] = designators_and_templates[d]
          /\ \A d \in DOMAIN cables :
                cables[d] = designators_and_templates[d])
    /\ [][/\ \A d \in DOMAIN connectors :
                d \in DOMAIN connectors' /\ connectors'[d] = connectors[d]
          /\ \A d \in DOMAIN cables :
                d \in DOMAIN cables' /\ cables'[d] = cables[d]
          /\ SubSeq(added', 1, Len(added)) = added
          /\ Len(added') <= Len(added) + 1
          /\ (pc = "generate" /\ AtCursor \in Live) =>
                connectors' = connectors /\ cables' = cables /\ added' = added
          /\ (pc = "generate" /\ AtCursor \notin Live /\ error' = "none") =>
                /\ Len(added') = Len(added) + 1
                /\ added'[Len(added')].designator = AtCursor]_vars

\* C11 witness: the designator U1 of template T, registered as a connector
\* and as a cable, occurred in two accepted sets: it was added once, as a
\* connector, and is no cable
C11_Witness ==
    /\ pc = "connect"
    /\ nsets = 2
    /\ "T" \in template_connectors \cap template_cables
    /\ Cardinality({c \in 1..Len(calls) : calls[c].designator = "U1"}) = 2
    /\ Cardinality({a \in 1..Len(added) : added[a].designator = "U1"}) = 1
    /\ "U1" \in DOMAIN connectors
    /\ connectors["U1"] = "T"
    /\ "U1" \notin DOMAIN cables

====
